---- MODULE Spec2Model ----
(***************************************************************************)
(* ArcForge: the selector-driven scraping pipeline.                        *)
(*   src/src/tools/scraper/generic_scraper.py  GenericScraper              *)
(*   src/src/main.py                           main, get_saver             *)
(* Strings are sequences of one-character strings (an identifying token    *)
(* such as a field name stands for a run of characters that holds no '/'   *)
(* and no blank).  Python's None is the value None below.                  *)
(***************************************************************************)
EXTENDS Integers, Sequences, FiniteSets, TLC

VARIABLES config, scraper, pc, err, pageIdx, soup, raw_data, field_data,
          pageMins, warnings, net, df, rowIdx, detail, applied, saved

vars == <<config, scraper, pc, err, pageIdx, soup, raw_data, field_data,
          pageMins, warnings, net, df, rowIdx, detail, applied, saved>>

(* ------------------------------ bounds -------------------------------- *)
\* largest page number a configuration names
MaxPage == 2
\* most nodes one selector matches on one listing page
MaxMatch == 2
\* largest page number in the configurations of the whole-pipeline runs
MainMaxPage == 1

(* ------------------------------ strings ------------------------------- *)
None == <<"<None>">>

Http == <<"h", "t", "t", "p">>

Digits == <<"0", "1", "2", "3", "4", "5", "6", "7", "8", "9">>

\* f"{page_num}": the decimal digits of a non-negative integer
RECURSIVE ToStr(_)
ToStr(n) ==
    IF n < 10 THEN <<Digits[n + 1]>>
    ELSE ToStr(n \div 10) \o <<Digits[(n % 10) + 1]>>

\* str.rstrip('/')
RECURSIVE RStrip(_)
RStrip(s) ==
    IF s # <<>> /\ s[Len(s)] = "/" THEN RStrip(SubSeq(s, 1, Len(s) - 1))
    ELSE s

\* str.startswith(prefix)
StartsWith(s, prefix) ==
    /\ Len(s) >= Len(prefix)
    /\ SubSeq(s, 1, Len(prefix)) = prefix

\* the strip=True of get_text: blanks removed at both ends
RECURSIVE LStripBlank(_)
LStripBlank(s) ==
    IF s # <<>> /\ s[1] = " " THEN LStripBlank(Tail(s)) ELSE s

RECURSIVE RStripBlank(_)
RStripBlank(s) ==
    IF s # <<>> /\ s[Len(s)] = " " THEN RStripBlank(SubSeq(s, 1, Len(s) - 1))
    ELSE s

Strip(s) == RStripBlank(LStripBlank(s))

(* ---------------------------- configuration --------------------------- *)
\* selectors are sequences of tokens; '[href]' and '[src]' are the tokens the
\* extractor looks for, " " is the descendant combinator
SelTitle == <<"h2", ".title">>
SelLink == <<"a", ".item", "[href]">>
SelImage == <<"img", ".thumb", "[src]">>
SelBoth == <<"a", "[src]", "[href]">>
SelNested == <<"a", "[href]", " ", "span">>

NoFields == [k \in {} |-> <<>>]
TitleOnly == [k \in {"title"} |-> SelTitle]
TitleLink == [k \in {"title", "link"} |-> IF k = "title" THEN SelTitle ELSE SelLink]
LinkImage == [k \in {"link", "image"} |-> IF k = "link" THEN SelBoth ELSE SelImage]
TitleNested == [k \in {"title", "link"} |-> IF k = "title" THEN SelTitle ELSE SelNested]

FieldMaps == {NoFields, TitleOnly, TitleLink, LinkImage, TitleNested}

BaseUrls == {Http \o <<"x">>, Http \o <<"x", "/">>, Http \o <<"x", "/", "/">>}

LinkBase == Http \o <<"y", "/">>

EnrichSelectors == {<<"article p">>, <<"article p", "div.body">>}

ConfigKeys == {"base_url", "start_page", "end_page", "link_base", "pagination",
               "field_selectors", "enrich", "enrich_column", "enrich_selectors",
               "save_strategy", "output_name"}

\* the keys a configuration document may leave out in this model
OptionalKeys == {"enrich_column", "enrich_selectors", "save_strategy", "output_name"}

\* config.get(key, default)
Get(c, key, default) == IF key \in c.keys THEN c[key] ELSE default

\* the configurations of a listing scrape: every pager and selector input
ListingConfigs ==
    [keys : {ConfigKeys},
     base_url : BaseUrls,
     start_page : 1..MaxPage,
     end_page : 1..MaxPage,
     link_base : {LinkBase},
     pagination : BOOLEAN,
     field_selectors : FieldMaps,
     enrich : {FALSE},
     enrich_column : {"content"},
     enrich_selectors : {<<"article p">>},
     save_strategy : {"csv"},
     output_name : {"out"}]

\* the configurations of a whole run of main: every enrichment and sink input
MainConfigs ==
    { c \in [keys : {ConfigKeys \ m : m \in SUBSET OptionalKeys},
             base_url : {Http \o <<"x", "/">>},
             start_page : 1..MainMaxPage,
             end_page : 1..MainMaxPage,
             link_base : {LinkBase},
             pagination : BOOLEAN,
             field_selectors : FieldMaps,
             enrich : BOOLEAN,
             enrich_column : {"content", "title"},
             enrich_selectors : EnrichSelectors,
             save_strategy : {"csv", "json", "xml", "yaml"},
             output_name : {"out"}] :
        \* an absent key carries no value: one representative each
        /\ ("enrich_column" \notin c.keys => c.enrich_column = "content")
        /\ ("enrich_selectors" \notin c.keys => c.enrich_selectors = <<"article p">>)
        /\ ("save_strategy" \notin c.keys => c.save_strategy = "csv") }

(* ------------------------------ scraper ------------------------------- *)
\* GenericScraper.__init__ as main calls it (page_param keeps its default)
GenericScraper(base_url, start_page, end_page, link_base, pagination_enabled) ==
    [base_url |-> RStrip(base_url),
     start_page |-> start_page,
     end_page |-> end_page,
     page_param |-> <<"?", "p", "a", "g", "e", "=">>,
     link_base |-> RStrip(link_base),
     pagination_enabled |-> pagination_enabled]

\* the pager without its pagination_enabled test
PagesRange(s) ==
    [i \in 1..(IF s.end_page >= s.start_page
               THEN s.end_page - s.start_page + 1 ELSE 0)
        |-> s.start_page + i - 1]

\* range(start_page, end_page + 1), or [None]
Pages(s) ==
    IF s.pagination_enabled
    THEN [i \in 1..(IF s.end_page >= s.start_page
                    THEN s.end_page - s.start_page + 1 ELSE 0)
             |-> s.start_page + i - 1]
    ELSE <<-1>>

\* -1 stands for the page number None of the unpaginated scrape
IsNonePage(page_num) == page_num = -1

PageUrl(s, page_num) ==
    IF IsNonePage(page_num) THEN s.base_url
    ELSE s.base_url \o s.page_param \o ToStr(page_num)

(* the network: request_page appends what it did to the trace *)
Get_(url) == [op |-> "GET", url |-> url]
Sleep == [op |-> "SLEEP", url |-> <<>>]

\* request_page when requests.get and raise_for_status succeed
RequestOk(url) == <<Get_(url), Sleep>>
\* request_page when a RequestException is raised: the except branch returns None
RequestFailed(url) == <<Get_(url)>>

(* --------------------------- listing pages ---------------------------- *)
\* the attributes a node may carry: an absolute or a relative href or none, a
\* src or none
Kinds == <<[href |-> "abs", src |-> TRUE], [href |-> "rel", src |-> FALSE],
           [href |-> "none", src |-> TRUE], [href |-> "rel", src |-> TRUE]>>

PageTag(page_num) == IF IsNonePage(page_num) THEN <<>> ELSE ToStr(page_num)

NodeId(node) == <<node.field>> \o node.page \o <<".">> \o ToStr(node.idx)

\* el.get('href'): None when the node has no href attribute
Href(node) ==
    CASE node.href = "abs" -> Http \o <<":">> \o NodeId(node)
      [] node.href = "rel" -> <<"/">> \o NodeId(node)
      [] OTHER -> None

\* el.get('src'): None when the node has no src attribute
Src(node) ==
    IF node.src THEN <<"s", "r", "c", ":">> \o NodeId(node) ELSE None

\* the node's text as it stands in the document, blanks around it
InnerText(node) == <<" ", "t", ":">> \o NodeId(node) \o <<" ", " ">>

\* el.get_text(strip=True)
GetText(node) == Strip(InnerText(node))

\* the last compound of a selector, the one the matched node itself satisfies
RECURSIVE Subject(_)
Subject(selector) ==
    IF \E i \in 1..Len(selector) : selector[i] = " "
    THEN Subject(Tail(selector))
    ELSE selector

\* soup.select: an attribute test in the subject compound is met by every
\* node the selector matches
Matchable(selector) ==
    LET subject == {Subject(selector)[i] : i \in 1..Len(Subject(selector))}
    IN  SelectSeq(Kinds, LAMBDA kind :
            /\ ("[href]" \in subject => kind.href # "none")
            /\ ("[src]" \in subject => kind.src))

\* the parsed documents a listing URL may answer with: for every configured
\* selector the nodes soup.select returns, any number up to MaxMatch each
Documents(field_selectors, page_num) ==
    { [k \in DOMAIN field_selectors |->
          [j \in 1..cnt[k] |->
              LET kinds == Matchable(field_selectors[k])
                  kind == kinds[((j + v) % Len(kinds)) + 1]
              IN  [field |-> k, page |-> PageTag(page_num), idx |-> j,
                   href |-> kind.href, src |-> kind.src]]] :
        cnt \in [DOMAIN field_selectors -> 0..MaxMatch], v \in 0..2 }

\* '[href]' in selector
Mentions(selector, token) == \E i \in 1..Len(selector) : selector[i] = token

\* the extractor with its src test ahead of its href test
ExtractFieldSrcFirst(selector, elements) ==
    IF Mentions(selector, "[src]")
    THEN [j \in 1..Len(elements) |-> Src(elements[j])]
    ELSE IF Mentions(selector, "[href]")
    THEN [j \in 1..Len(elements) |-> Href(elements[j])]
    ELSE [j \in 1..Len(elements) |-> GetText(elements[j])]

\* the body of the loop over field_selectors.items()
ExtractField(selector, elements) ==
    IF Mentions(selector, "[href]")
    THEN [j \in 1..Len(elements) |-> Href(elements[j])]
    ELSE IF Mentions(selector, "[src]")
    THEN [j \in 1..Len(elements) |-> Src(elements[j])]
    ELSE [j \in 1..Len(elements) |-> GetText(elements[j])]

RawData(field_selectors, doc) ==
    [k \in DOMAIN field_selectors |-> ExtractField(field_selectors[k], doc[k])]

\* min(len(lst) for lst in raw_data.values()), for a non-empty raw_data
MinLen(raw) ==
    CHOOSE m \in {Len(raw[k]) : k \in DOMAIN raw} :
        \A k \in DOMAIN raw : m <= Len(raw[k])

\* any(len(lst) != min_len for lst in raw_data.values())
Mismatched(raw, min_len) == \E k \in DOMAIN raw : Len(raw[k]) # min_len

\* the slice left out: raw_data[key]
TruncateNone(lst, min_len) == lst

\* raw_data[key][:min_len]
Truncate(lst, min_len) == SubSeq(lst, 1, min_len)

\* the new rows put ahead of the accumulated ones
ExtendFront(fd, raw, min_len) ==
    [k \in DOMAIN fd |-> Truncate(raw[k], min_len) \o fd[k]]

\* field_data[key].extend(raw_data[key][:min_len]) for every key
Extend(fd, raw, min_len) ==
    [k \in DOMAIN fd |-> fd[k] \o Truncate(raw[k], min_len)]

\* the least number of nodes any configured selector matched in a document:
\* how many n have n matches under every selector
LeastCount(doc) ==
    Cardinality({n \in 1..MaxMatch : \A k \in DOMAIN doc : Len(doc[k]) >= n})

(* ------------------------------- state -------------------------------- *)
InitWith(c) ==
    /\ config = c
    /\ scraper = GenericScraper(c.base_url, c.start_page, c.end_page, c.link_base,
                                Get(c, "pagination", FALSE))
    /\ pc = "listing"
    /\ err = "none"
    /\ pageIdx = 1
    /\ soup = <<>>
    /\ raw_data = <<>>
    /\ field_data = [k \in DOMAIN c.field_selectors |-> <<>>]
    /\ pageMins = <<>>
    /\ warnings = {}
    /\ net = <<>>
    /\ df = <<>>
    /\ rowIdx = 0
    /\ detail = <<>>
    /\ applied = <<>>
    /\ saved = "nothing"

Init == \E c \in MainConfigs : InitWith(c)

ListingInit == \E c \in ListingConfigs : InitWith(c)

InLoop == pc = "listing" /\ pageIdx <= Len(Pages(scraper))

Raise(e) == pc' = "error" /\ err' = e

(* ------------------------- scrape_listing_data ------------------------ *)
\* one turn of the loop in which request_page returns None
ListingPageFail ==
    /\ InLoop
    /\ LET page_num == Pages(scraper)[pageIdx]
       IN  /\ net' = net \o RequestFailed(PageUrl(scraper, page_num))
           /\ pageIdx' = pageIdx + 1
           /\ pageMins' = Append(pageMins, -1)
    /\ UNCHANGED <<config, scraper, pc, err, soup, raw_data, field_data,
                   warnings, df, rowIdx, detail, applied, saved>>

\* one turn of the loop in which request_page returns a parsed document
ListingPageOk ==
    /\ InLoop
    /\ LET page_num == Pages(scraper)[pageIdx]
       IN  \E doc \in Documents(config.field_selectors, page_num) :
             LET raw == RawData(config.field_selectors, doc)
             IN  /\ net' = net \o RequestOk(PageUrl(scraper, page_num))
                 /\ soup' = doc
                 /\ raw_data' = raw
                 /\ IF DOMAIN raw = {}
                    THEN /\ Raise("ValueError: min() arg is an empty sequence")
                         /\ UNCHANGED <<pageIdx, field_data, pageMins, warnings>>
                    ELSE LET min_len == MinLen(raw)
                         IN  /\ warnings' = IF Mismatched(raw, min_len)
                                            THEN warnings \cup {page_num}
                                            ELSE warnings
                             /\ field_data' = Extend(field_data, raw, min_len)
                             /\ pageMins' = Append(pageMins, LeastCount(doc))
                             /\ pageIdx' = pageIdx + 1
                             /\ UNCHANGED <<pc, err>>
    /\ UNCHANGED <<config, scraper, df, rowIdx, detail, applied, saved>>

\* the loop is over: return field_data
ListingReturn ==
    /\ pc = "listing"
    /\ pageIdx > Len(Pages(scraper))
    /\ pc' = "listed"
    /\ UNCHANGED <<config, scraper, err, pageIdx, soup, raw_data, field_data,
                   pageMins, warnings, net, df, rowIdx, detail, applied, saved>>

ListingNext == ListingPageFail \/ ListingPageOk \/ ListingReturn

SpecListing == ListingInit /\ [][ListingNext]_vars

(* --------------------------- detail pages ----------------------------- *)
\* full_url = url if url.startswith('http') else self.link_base + url
FullUrl(s, url) == IF StartsWith(url, Http) THEN url ELSE s.link_base \o url

SelectorSet(selectors) == {selectors[i] : i \in 1..Len(selectors)}

\* the parsed documents a detail URL may answer with: for every selector of the
\* list what soup.select_one returns, the text of the first matching tag or None
DetailDocuments(full_url, selectors) ==
    { [sel \in SelectorSet(selectors) |->
          IF sel \in matching
          THEN <<" ", sel, "@">> \o full_url \o <<" ">>
          ELSE None] :
        matching \in SUBSET SelectorSet(selectors) }

\* the loop over selectors of get_value_from_product_page, attr=None
RECURSIVE FirstMatch(_, _)
FirstMatch(doc, selectors) ==
    IF selectors = <<>> THEN None
    ELSE IF doc[Head(selectors)] # None THEN Strip(doc[Head(selectors)])
    ELSE FirstMatch(doc, Tail(selectors))

\* pd.DataFrame(data_dict): the columns of the dictionary
CreateDataframe(data_dict) == data_dict

NRows(frame, column) == Len(frame[column])

\* df[column_name] = series
SetColumn(frame, column_name, series) ==
    [k \in DOMAIN frame \cup {column_name} |->
        IF k = column_name THEN series ELSE frame[k]]

\* get_saver
GetSaver(strategy) ==
    CASE strategy = "csv" -> "CsvStrategy"
      [] strategy = "json" -> "JsonStrategy"
      [] strategy = "xml" -> "XmlStrategy"
      [] OTHER -> "ValueError"

(* -------------------------------- main -------------------------------- *)
\* main.py after the listing scrape: create_dataframe, then the enrich test and
\* the arguments of the enrichment call, up to the start of apply
MainAfterListing ==
    /\ pc = "listed"
    /\ df' = CreateDataframe(field_data)
    /\ IF Get(config, "enrich", FALSE)
       THEN IF "enrich_selectors" \notin config.keys
            THEN Raise("KeyError: 'enrich_selectors'") /\ UNCHANGED <<rowIdx, applied>>
            ELSE IF "link" \notin DOMAIN field_data
            THEN Raise("KeyError: 'link'") /\ UNCHANGED <<rowIdx, applied>>
            ELSE pc' = "enriching" /\ rowIdx' = 1 /\ applied' = <<>> /\ UNCHANGED err
       ELSE pc' = "saving" /\ UNCHANGED <<err, rowIdx, applied>>
    /\ UNCHANGED <<config, scraper, pageIdx, soup, raw_data, field_data, pageMins,
                   warnings, net, detail, saved>>

InApply == pc = "enriching" /\ rowIdx <= NRows(df, "link")

\* get_value_from_product_page on a link that is None: url.startswith raises
EnrichRowRaise ==
    /\ InApply
    /\ df["link"][rowIdx] = None
    /\ Raise("AttributeError: 'NoneType' object has no attribute 'startswith'")
    /\ UNCHANGED <<config, scraper, pageIdx, soup, raw_data, field_data, pageMins,
                   warnings, net, df, rowIdx, detail, applied, saved>>

\* get_value_from_product_page when request_page returns None
EnrichRowFail ==
    /\ InApply
    /\ df["link"][rowIdx] # None
    /\ net' = net \o RequestFailed(FullUrl(scraper, df["link"][rowIdx]))
    /\ applied' = Append(applied, None)
    /\ rowIdx' = rowIdx + 1
    /\ UNCHANGED <<config, scraper, pc, err, pageIdx, soup, raw_data, field_data,
                   pageMins, warnings, df, detail, saved>>

\* get_value_from_product_page when request_page returns a parsed document
EnrichRowOk ==
    /\ InApply
    /\ df["link"][rowIdx] # None
    /\ LET full_url == FullUrl(scraper, df["link"][rowIdx])
       IN  \E doc \in DetailDocuments(full_url, config.enrich_selectors) :
             /\ net' = net \o RequestOk(full_url)
             /\ detail' = doc
             /\ applied' = Append(applied, FirstMatch(doc, config.enrich_selectors))
    /\ rowIdx' = rowIdx + 1
    /\ UNCHANGED <<config, scraper, pc, err, pageIdx, soup, raw_data, field_data,
                   pageMins, warnings, df, saved>>

\* apply is over: the series becomes the column and the frame is returned
EnrichReturn ==
    /\ pc = "enriching"
    /\ rowIdx > NRows(df, "link")
    /\ df' = SetColumn(df, Get(config, "enrich_column", "content"), applied)
    /\ pc' = "saving"
    /\ UNCHANGED <<config, scraper, err, pageIdx, soup, raw_data, field_data,
                   pageMins, warnings, net, rowIdx, detail, applied, saved>>

\* saver = get_saver(config["save_strategy"]); saver.save(df, config["output_name"])
MainSave ==
    /\ pc = "saving"
    /\ IF "save_strategy" \notin config.keys
       THEN Raise("KeyError: 'save_strategy'") /\ UNCHANGED saved
       ELSE IF GetSaver(config.save_strategy) = "ValueError"
       THEN Raise("ValueError: Unsupported save strategy") /\ UNCHANGED saved
       ELSE IF "output_name" \notin config.keys
       THEN Raise("KeyError: 'output_name'") /\ UNCHANGED saved
       ELSE /\ saved' = GetSaver(config.save_strategy)
            /\ pc' = "done"
            /\ UNCHANGED err
    /\ UNCHANGED <<config, scraper, pageIdx, soup, raw_data, field_data, pageMins,
                   warnings, net, df, rowIdx, detail, applied>>

Next ==
    \/ ListingPageFail
    \/ ListingPageOk
    \/ ListingReturn
    \/ MainAfterListing
    \/ EnrichRowRaise
    \/ EnrichRowFail
    \/ EnrichRowOk
    \/ EnrichReturn
    \/ MainSave

Spec == Init /\ [][Next]_vars

(* ------------------------------ claims -------------------------------- *)
Last(seq) == seq[Len(seq)]

\* the URLs of the GET requests of a trace, in the order they were sent
GetUrls(trace) ==
    LET gets == SelectSeq(trace, LAMBDA e : e.op = "GET")
    IN  [i \in 1..Len(gets) |-> gets[i].url]

RECURSIVE SumRows(_)
SumRows(mins) ==
    IF mins = <<>> THEN 0
    ELSE (IF Head(mins) >= 0 THEN Head(mins) ELSE 0) + SumRows(Tail(mins))

SomePageFetched == \E i \in 1..Len(net) : net[i].op = "SLEEP"

\* scrape_listing_data has ended, by returning or by raising
ScrapeEnded == pc \in {"listed", "error"}

\* u is b without the '/' characters at its end
StrippedOf(u, b) ==
    /\ (u = <<>> \/ Last(u) # "/")
    /\ \E n \in 0..Len(b) : b = u \o [i \in 1..n |-> "/"]

\* t is raw without the blanks at both ends
TrimmedOf(t, raw) ==
    /\ (t = <<>> \/ (t[1] # " " /\ Last(t) # " "))
    /\ \E m \in 0..(Len(raw) - Len(t)) :
          raw = [i \in 1..m |-> " "] \o t \o [i \in 1..(Len(raw) - Len(t) - m) |-> " "]

\* C1: at every point of a listing scrape every column of the accumulated
\* record set has the same length, the sum over the fetched pages of the least
\* per-field match count of the page.
C1_ColumnsAligned ==
    \A k \in DOMAIN field_data : Len(field_data[k]) = SumRows(pageMins)

\* a returned scrape of two fetched pages, one of them truncated, three rows
C1_Witness ==
    /\ pc = "listed"
    /\ Len(pageMins) = 2
    /\ SumRows(pageMins) = 3
    /\ warnings # {}
    /\ Cardinality(DOMAIN field_data) = 2
    /\ \A k \in DOMAIN field_data : Len(field_data[k]) = 3

\* C2 as claimed: without pagination exactly one request is sent, to base_url
\* as configured.
C2_OneRequestToBaseUrl ==
    (~scraper.pagination_enabled /\ ScrapeEnded) =>
        GetUrls(net) = <<config.base_url>>

\* C2 amended: without pagination exactly one request is sent, to base_url
\* without its trailing '/' characters and with no page parameter, whatever
\* start_page and end_page are.
C2_OneRequestToStrippedBaseUrl ==
    ~scraper.pagination_enabled =>
        /\ Len(GetUrls(net)) <= 1
        /\ \A i \in 1..Len(GetUrls(net)) : StrippedOf(GetUrls(net)[i], config.base_url)
        /\ ScrapeEnded => Len(GetUrls(net)) = 1

\* an unpaginated scrape with end_page < start_page and a base_url ending in '/'
C2_Witness ==
    /\ ~scraper.pagination_enabled
    /\ pc = "listed"
    /\ config.end_page < config.start_page
    /\ Last(config.base_url) = "/"
    /\ Len(GetUrls(net)) = 1

\* C3: with pagination the requests of an ended scrape are exactly
\* base_url + page_param + p for p = start_page..end_page in ascending order,
\* once each; an empty range sends nothing and returns every field empty.
C3_PagedRequestsInOrder ==
    (scraper.pagination_enabled /\ ScrapeEnded) =>
        /\ GetUrls(net) =
              [i \in 1..(IF config.end_page >= config.start_page
                         THEN config.end_page - config.start_page + 1 ELSE 0) |->
                  config.base_url \o scraper.page_param
                      \o ToStr(config.start_page + i - 1)]
        /\ config.end_page < config.start_page =>
              /\ pc = "listed"
              /\ net = <<>>
              /\ DOMAIN field_data = DOMAIN config.field_selectors
              /\ \A k \in DOMAIN field_data : field_data[k] = <<>>

\* C4: a turn of the loop whose fetch fails leaves the record set as it was and
\* goes on to the next page without raising; a turn that adds rows puts them
\* after the rows already there; the record set returned is the accumulated one.
C4_FetchFailureNotFatal ==
    [][ pc = "listing" =>
          /\ (net' # net /\ Last(net').op = "GET") =>
                /\ field_data' = field_data
                /\ pc' = "listing"
                /\ pageIdx' = pageIdx + 1
          /\ (net' # net /\ Last(net').op = "SLEEP" /\ pc' = "listing") =>
                /\ pageIdx' = pageIdx + 1
                /\ \A k \in DOMAIN field_data :
                      field_data'[k] =
                          field_data[k] \o SubSeq(raw_data'[k], 1, LeastCount(soup'))
          /\ pc' = "listed" => field_data' = field_data ]_vars

\* a returned scrape whose first page gave a row, whose second page failed
C4_Witness ==
    /\ pc = "listed"
    /\ Len(pageMins) = 2
    /\ pageMins[1] > 0
    /\ pageMins[2] = -1
    /\ \E k \in DOMAIN field_data : Len(field_data[k]) = pageMins[1]

\* C7: every GET of the trace is followed by the politeness delay.
C7_DelayAfterEveryRequest ==
    \A i \in 1..Len(net) :
        net[i].op = "GET" => (i < Len(net) /\ net[i + 1].op = "SLEEP")

\* C9: with no field selectors the listing scrape never raises and returns an
\* empty record set.
C9_EmptySelectorsNoCrash ==
    DOMAIN config.field_selectors = {} =>
        /\ pc # "error"
        /\ pc = "listed" => field_data = <<>>

\* C10: the extraction of a fetched page has one sequence per configured field,
\* one value per matched node: the node's href attribute when the selector
\* mentions [href] (also when it mentions [src] too), else its src attribute when
\* the selector mentions [src], else its text without the blanks around it.
C10_ExtractorByShape ==
    SomePageFetched =>
        /\ DOMAIN raw_data = DOMAIN config.field_selectors
        /\ \A k \in DOMAIN raw_data :
              /\ Len(raw_data[k]) = Len(soup[k])
              /\ \A j \in 1..Len(soup[k]) :
                    LET sel == config.field_selectors[k]
                        node == soup[k][j]
                        v == raw_data[k][j]
                    IN  IF "[href]" \in SelectorSet(sel)
                        THEN v = Href(node) /\ ~TrimmedOf(v, InnerText(node))
                        ELSE IF "[src]" \in SelectorSet(sel)
                        THEN v = Src(node) /\ ~TrimmedOf(v, InnerText(node))
                        ELSE TrimmedOf(v, InnerText(node))

\* a page fetched under a selector mentioning both shapes, which matched two
\* nodes, and a selector that matched nothing
C10_Witness ==
    /\ SomePageFetched
    /\ config.field_selectors = LinkImage
    /\ Len(raw_data["link"]) = 2
    /\ raw_data["link"][1] = Href(soup["link"][1])
    /\ raw_data["link"][1] # Src(soup["link"][1])
    /\ raw_data["image"] = <<>>

(* claims about the whole run of main *)
ConfigErrors ==
    {"KeyError: 'enrich_selectors'", "KeyError: 'save_strategy'",
     "ValueError: Unsupported save strategy", "KeyError: 'output_name'"}

\* the call of enrich_dataframe_column_from_pages has ended
EnrichEnded == rowIdx >= 1 /\ pc # "enriching"

\* the URLs of the detail requests: those sent after the listing requests
DetailUrls ==
    SubSeq(GetUrls(net), Len(Pages(scraper)) + 1, Len(GetUrls(net)))

\* C5: an ended enrichment has returned the frame with its rows and its
\* existing columns as they were, sent one detail request per row in row order
\* to the row's link, and written at row i what the page of row i's link gave.
C5_EnrichPreservesRows ==
    EnrichEnded =>
        /\ err # "AttributeError: 'NoneType' object has no attribute 'startswith'"
        /\ \A k \in DOMAIN field_data : df[k] = field_data[k]
        /\ LET col == df[Get(config, "enrich_column", "content")]
               links == field_data["link"]
           IN  /\ Len(col) = Len(links)
               /\ Len(DetailUrls) = Len(links)
               /\ \A i \in 1..Len(links) :
                     /\ DetailUrls[i] \in {links[i], scraper.link_base \o links[i]}
                     /\ col[i] # None =>
                           SubSeq(col[i], 3, Len(col[i])) = DetailUrls[i]

\* C6: a row of the enrichment never raises, whatever its link; its value is
\* None when the fetch fails or no selector of the list matches, and else the
\* text of the first selector of the list that matches.
C6_FirstSelectorOrNull ==
    [][ pc = "enriching" =>
          /\ pc' # "error"
          /\ rowIdx' = rowIdx + 1 =>
                LET sels == config.enrich_selectors
                    hits == {i \in 1..Len(sels) : detail'[sels[i]] # None}
                    first == CHOOSE i \in hits : \A h \in hits : i <= h
                IN  IF Last(net').op = "GET" \/ hits = {}
                    THEN Last(applied') = None
                    ELSE TrimmedOf(Last(applied'), detail'[sels[first]]) ]_vars

\* C8: a run that ends with a configuration error has sent no request.
C8_ConfigErrorBeforeNetwork ==
    (pc = "error" /\ err \in ConfigErrors) => net = <<>>

====
